---- MODULE Spec2Model ----
(***************************************************************************)
(* Model of the GitHub status monitor of                                   *)
(* examples/servers/simple-tool/mcp_simple_tool/server.py: the monitor     *)
(* object (GitHubStatusMonitor), the background polling coroutine          *)
(* (monitor_github_status) and the tool handler (github_status_tool).      *)
(*                                                                         *)
(* asyncio runs one coroutine at a time and switches only at an await, so  *)
(* every action below is the code between two suspension points.  The      *)
(* suspension points of the polling loop are the await of                  *)
(* get_current_status (pc = "fetching") and the await of asyncio.sleep     *)
(* (pc = "sleeping"); a task that create_task has scheduled and that has   *)
(* not run yet has pc = "created".                                         *)
(***************************************************************************)
EXTENDS Integers, Sequences, FiniteSets, TLC

VARIABLES
    monitoring,      \* github_monitor.monitoring
    check_interval,  \* github_monitor.check_interval
    last_status,     \* github_monitor.last_status (None or a summary dict)
    tasks,           \* the tasks asyncio.create_task(monitor_github_status()) made
    stdout,          \* the lines the latest loop iteration printed
    result,          \* what the latest call of github_status_tool gave its caller
    fetch            \* the latest answer of the status endpoint and who asked

vars == <<monitoring, check_interval, last_status, tasks, stdout, result, fetch>>

-----------------------------------------------------------------------------
(* Bounds of the model *)

\* Polling tasks that can be alive at once (a slot is free again once its
\* task has returned).
MaxTasks == 2

\* Longest incident list and longest maintenance list in the bodies the
\* normalisation is checked on.
MaxIncidents == 2
MaxMaintenances == 1

(* Constants of the program *)

InitialInterval == 300
DefaultInterval == 300
RetryDelay == 60
MinInterval == 10

-----------------------------------------------------------------------------
(* Values *)

\* Python's None, for last_status.
None == [none |-> TRUE]

\* A JSON object is a function from its keys; {} is the empty function.
EmptyDict == <<>>

\* dict.get(k, default)
Get(d, k, default) == IF k \in DOMAIN d THEN d[k] ELSE default

\* datetime.now().isoformat(), as read by the except branch of
\* get_current_status.
Clock == {"2024-01-01T00:05:00"}

\* Bodies the status endpoint answers with.  Scenario A of the
\* specification; a minor degradation with one incident and no maintenance
\* list; a major outage with two incidents; an empty object.
PayloadOperational ==
    [status |-> [indicator |-> "none", description |-> "All Systems Operational"],
     page |-> [updated_at |-> "2024-01-01T00:00:00Z"],
     incidents |-> <<>>,
     scheduled_maintenances |-> <<>>]

PayloadMinor ==
    [status |-> [indicator |-> "minor", description |-> "Minor Service Outage"],
     page |-> [updated_at |-> "2024-01-01T00:00:00Z"],
     incidents |-> <<"inc1">>]

PayloadMajor ==
    [status |-> [indicator |-> "major", description |-> "Partial System Outage"],
     page |-> [updated_at |-> "2024-01-01T00:00:00Z"],
     incidents |-> <<"inc1", "inc2">>,
     scheduled_maintenances |-> <<"mnt1">>]

PollPayloads == {PayloadOperational, PayloadMinor, PayloadMajor, EmptyDict}

\* The union of two objects with disjoint keys.
Merge(f, g) ==
    [k \in DOMAIN f \cup DOMAIN g |-> IF k \in DOMAIN f THEN f[k] ELSE g[k]]

\* Lists of n items.
ListOf(prefix, n) == [k \in 1 .. n |-> <<prefix, k>>]

\* The well-formed bodies: each of "status", "page", "incidents" and
\* "scheduled_maintenances" is there or not, and so are "indicator" and
\* "description" in "status" and "updated_at" in "page".
StatusObjects ==
    {Merge(a, b) :
        a \in {EmptyDict} \cup [indicator : {"none", "critical"}],
        b \in {EmptyDict} \cup [description : {"All Systems Operational"}]}

PageObjects == {EmptyDict} \cup [updated_at : {"2024-01-01T00:00:00Z"}]

Payloads ==
    {Merge(Merge(s, p), Merge(i, m)) :
        s \in {EmptyDict} \cup [status : StatusObjects],
        p \in {EmptyDict} \cup [page : PageObjects],
        i \in {EmptyDict} \cup [incidents : {ListOf("inc", n) : n \in 0 .. MaxIncidents}],
        m \in {EmptyDict} \cup
                [scheduled_maintenances :
                    {ListOf("mnt", n) : n \in 0 .. MaxMaintenances}]}

\* What one GET of status_url can end in: a body (2xx), a non-success HTTP
\* status (raise_for_status raises), or a transport failure (client.get
\* raises).  error is str(e) of the exception raised.
Responses ==
    [kind : {"ok"}, body : PollPayloads, error : {""}]
        \cup [kind : {"http"}, body : {EmptyDict}, error : {"503 Service Unavailable"}]
        \cup [kind : {"transport"}, body : {EmptyDict}, error : {"timed out"}]

NoResponse == [kind |-> "none", body |-> EmptyDict, error |-> ""]

FailurePrefix == "Failed to fetch status: "

-----------------------------------------------------------------------------
(* GitHubStatusMonitor *)

\* check_status: the body, or the exception of client.get / raise_for_status.
check_status(resp) ==
    IF resp.kind = "ok"
    THEN [raised |-> FALSE, value |-> resp.body, exc |-> ""]
    ELSE [raised |-> TRUE, value |-> EmptyDict, exc |-> resp.error]

\* A try branch with one default for both texts.
NormalizeOneDefault(status_data) ==
    [status |-> Get(Get(status_data, "status", EmptyDict), "indicator", "unknown"),
     description |->
         Get(Get(status_data, "status", EmptyDict), "description", "unknown"),
     updated_at |-> Get(Get(status_data, "page", EmptyDict), "updated_at", "unknown"),
     incidents |-> Len(Get(status_data, "incidents", <<>>)),
     maintenances |-> Len(Get(status_data, "scheduled_maintenances", <<>>))]

\* The dict the try branch of get_current_status returns.
Normalize(status_data) ==
    [status |-> Get(Get(status_data, "status", EmptyDict), "indicator", "unknown"),
     description |->
         Get(Get(status_data, "status", EmptyDict), "description", "No description"),
     updated_at |-> Get(Get(status_data, "page", EmptyDict), "updated_at", "unknown"),
     incidents |-> Len(Get(status_data, "incidents", <<>>)),
     maintenances |-> Len(Get(status_data, "scheduled_maintenances", <<>>))]

\* An except branch that reports the failure as an unknown status.
ErrorSummaryUnknown(exc, now) ==
    [status |-> "unknown",
     description |-> FailurePrefix \o exc,
     updated_at |-> now,
     incidents |-> 0,
     maintenances |-> 0]

\* The dict the except branch of get_current_status returns.
ErrorSummary(exc, now) ==
    [status |-> "error",
     description |-> FailurePrefix \o exc,
     updated_at |-> now,
     incidents |-> 0,
     maintenances |-> 0]

\* get_current_status without its except branch: the exception of
\* check_status reaches the caller.
get_current_status_NoCatch(resp, now) ==
    LET r == check_status(resp)
    IN  IF r.raised
        THEN r
        ELSE [raised |-> FALSE, value |-> Normalize(r.value), exc |-> ""]

\* get_current_status with the endpoint answering resp at time now.
get_current_status(resp, now) ==
    LET r == check_status(resp)
    IN  IF r.raised
        THEN [raised |-> FALSE, value |-> ErrorSummary(r.exc, now), exc |-> ""]
        ELSE [raised |-> FALSE, value |-> Normalize(r.value), exc |-> ""]

-----------------------------------------------------------------------------
(* monitor_github_status *)

NoTask == [pc |-> "none", sleep |-> 0, stale |-> FALSE]

Slots == 1 .. MaxTasks

Alive == {i \in Slots : tasks[i].pc # "none"}

\* A loop that never reads the flag: while True.
LoopConditionAlways == TRUE

\* A loop whose test is inverted: while not github_monitor.monitoring.
LoopConditionInverted == ~monitoring

\* The condition of the while loop.
LoopCondition == monitoring

\* A test that knows the provider's severe levels only.
ProblemStatusSevere(current_status) == current_status.status \in {"major", "critical"}

\* A test that takes "minor" for a problem: status != "none".
ProblemStatusNotNone(current_status) == current_status.status # "none"

\* if current_status["status"] not in ["none", "minor"]
ProblemStatus(current_status) == current_status.status \notin {"none", "minor"}

\* if current_status["incidents"] > 0
HasIncidents(current_status) == current_status.incidents > 0

\* The lines one iteration prints for current_status.
Alerts(current_status) ==
    (IF ProblemStatus(current_status)
     THEN << <<"GitHub Status Alert: ", current_status.status, " - ",
               current_status.description>> >>
     ELSE <<>>)
    \o
    (IF HasIncidents(current_status)
     THEN << <<"GitHub Incidents Alert: ", current_status.incidents,
               " active incidents">> >>
     ELSE <<>>)

\* A sleep of the default, whatever interval was asked for.
SleepAfterPollDefault == InitialInterval

\* The argument of the asyncio.sleep that ends the try branch.
SleepAfterPoll == check_interval

\* Task i runs from its creation, or from the end of its sleep, to the while
\* test: it leaves the loop (and returns), or awaits get_current_status.
LoopCheck(i) ==
    /\ tasks[i].pc \in {"created", "sleeping"}
    /\ tasks' = [tasks EXCEPT ![i] =
                    IF LoopCondition
                    THEN [@ EXCEPT !.pc = "fetching", !.sleep = 0]
                    ELSE NoTask]
    /\ UNCHANGED <<monitoring, check_interval, last_status, stdout, result, fetch>>

\* A loop that gives up on a failed fetch: it returns when the summary is an
\* error summary.
LoopPoll_ReturnOnError(i, resp, now) ==
    /\ tasks[i].pc = "fetching"
    /\ LET r == get_current_status(resp, now)
       IN  /\ stdout' = Alerts(r.value)
           /\ last_status' = r.value
           /\ tasks' = [tasks EXCEPT ![i] =
                           IF r.value.status = "error"
                           THEN NoTask
                           ELSE [@ EXCEPT !.pc = "sleeping", !.sleep = SleepAfterPoll]]
    /\ fetch' = [by |-> i, resp |-> resp]
    /\ UNCHANGED <<monitoring, check_interval, result>>

\* The endpoint answers task i: the rest of the try block up to the await of
\* asyncio.sleep, or the except block when get_current_status raised.
LoopPoll(i, resp, now) ==
    /\ tasks[i].pc = "fetching"
    /\ LET r == get_current_status(resp, now)
       IN  IF ~r.raised
           THEN /\ stdout' = Alerts(r.value)
                /\ last_status' = r.value
                /\ tasks' = [tasks EXCEPT ![i].pc = "sleeping",
                                          ![i].sleep = SleepAfterPoll]
           ELSE /\ stdout' = << <<"Error monitoring GitHub status: ", r.exc>> >>
                /\ last_status' = last_status
                /\ tasks' = [tasks EXCEPT ![i].pc = "sleeping",
                                          ![i].sleep = RetryDelay]
    /\ fetch' = [by |-> i, resp |-> resp]
    /\ UNCHANGED <<monitoring, check_interval, result>>

-----------------------------------------------------------------------------
(* The tools *)

KnownTools == {"check_github_status", "start_monitoring", "stop_monitoring"}

ToolNames == KnownTools \cup {"restart_monitoring"}

\* The arguments a caller sends: an interval, or none; only start_monitoring
\* declares a parameter.
Arguments == {EmptyDict} \cup [interval : {5, 10}]

ArgumentsOf(name) == IF name = "start_monitoring" THEN Arguments ELSE {EmptyDict}

\* A schema without the minimum.
SchemaAcceptsAnything(name, arguments) == TRUE

\* The inputSchema list_tools declares for a tool: the only constraint any
\* of the three states is the minimum of start_monitoring's interval.
SchemaAccepts(name, arguments) ==
    (name = "start_monitoring" /\ "interval" \in DOMAIN arguments)
        => arguments.interval >= MinInterval

\* The dispatch layer checks the arguments of a tool it knows against the
\* tool's inputSchema before it calls the handler.
ValidateInput(name, arguments) ==
    name \in KnownTools => SchemaAccepts(name, arguments)

\* The answer to a call: the request (its id modulo 2, the tool, the
\* arguments) and what the caller gets, the text returned or the exception
\* raised.
Reply(name, arguments, raised, text) ==
    [id |-> 1 - result.id, tool |-> name, arguments |-> arguments,
     raised |-> raised, text |-> text]

\* A call the dispatch layer rejects: the handler does not run.
RejectCall(name, arguments) ==
    /\ result' = Reply(name, arguments, TRUE,
                       <<"Input validation error: ", arguments.interval,
                         " is less than the minimum of ", MinInterval>>)
    /\ UNCHANGED <<monitoring, check_interval, last_status, tasks, stdout, fetch>>

\* A check branch that evaluates the alerts as the loop does.
check_github_status_Alerting(arguments, resp, now) ==
    /\ LET r == get_current_status(resp, now)
       IN  /\ result' = Reply("check_github_status", arguments, FALSE,
                              <<"GitHub Status:\n", r.value>>)
           /\ stdout' = Alerts(r.value)
    /\ fetch' = [by |-> 0, resp |-> resp]
    /\ UNCHANGED <<monitoring, check_interval, last_status, tasks>>

\* if name == "check_github_status"
check_github_status(arguments, resp, now) ==
    /\ LET r == get_current_status(resp, now)
       IN  result' = IF r.raised
                     THEN Reply("check_github_status", arguments, TRUE, <<r.exc>>)
                     ELSE Reply("check_github_status", arguments, FALSE,
                                <<"GitHub Status:\n", r.value>>)
    /\ fetch' = [by |-> 0, resp |-> resp]
    /\ UNCHANGED <<monitoring, check_interval, last_status, tasks, stdout>>

\* elif name == "start_monitoring".  create_task takes the first free slot;
\* with none free the model does not take the call.
start_monitoring(arguments) ==
    LET interval == Get(arguments, "interval", DefaultInterval)
    IN  /\ \E i \in Slots : tasks[i].pc = "none"
        /\ check_interval' = interval
        /\ monitoring' = TRUE
        /\ LET i == CHOOSE j \in Slots :
                        /\ tasks[j].pc = "none"
                        /\ \A k \in Slots : tasks[k].pc = "none" => j <= k
           IN  tasks' = [tasks EXCEPT ![i] =
                            [pc |-> "created", sleep |-> 0, stale |-> FALSE]]
        /\ result' = Reply("start_monitoring", arguments, FALSE,
                           <<"Started GitHub status monitoring with ",
                             interval, "s interval">>)
        /\ UNCHANGED <<last_status, stdout, fetch>>

\* A stop branch that also forgets the last summary.
stop_monitoring_Reset(arguments) ==
    /\ monitoring' = FALSE
    /\ last_status' = None
    /\ tasks' = [i \in Slots |->
                    IF tasks[i].pc \in {"sleeping", "fetching"}
                    THEN [tasks[i] EXCEPT !.stale = TRUE]
                    ELSE tasks[i]]
    /\ result' = Reply("stop_monitoring", arguments, FALSE,
                       <<"Stopped GitHub status monitoring">>)
    /\ UNCHANGED <<check_interval, stdout, fetch>>

\* elif name == "stop_monitoring".  A loop that is sleeping or awaiting its
\* fetch now was spawned before this Stop: stale records it.
stop_monitoring(arguments) ==
    /\ monitoring' = FALSE
    /\ tasks' = [i \in Slots |->
                    IF tasks[i].pc \in {"sleeping", "fetching"}
                    THEN [tasks[i] EXCEPT !.stale = TRUE]
                    ELSE tasks[i]]
    /\ result' = Reply("stop_monitoring", arguments, FALSE,
                       <<"Stopped GitHub status monitoring">>)
    /\ UNCHANGED <<check_interval, last_status, stdout, fetch>>

\* A handler whose last branch is not guarded: an unknown name falls into
\* the stop_monitoring branch.
unknown_tool_AsStop(name, arguments) ==
    /\ monitoring' = FALSE
    /\ tasks' = [i \in Slots |->
                    IF tasks[i].pc \in {"sleeping", "fetching"}
                    THEN [tasks[i] EXCEPT !.stale = TRUE]
                    ELSE tasks[i]]
    /\ result' = Reply(name, arguments, FALSE,
                       <<"Stopped GitHub status monitoring">>)
    /\ UNCHANGED <<check_interval, last_status, stdout, fetch>>

\* else: raise ValueError(f"Unknown tool: {name}")
unknown_tool(name, arguments) ==
    /\ result' = Reply(name, arguments, TRUE, <<"Unknown tool: ", name>>)
    /\ UNCHANGED <<monitoring, check_interval, last_status, tasks, stdout, fetch>>

\* resp and now are what the endpoint and the clock give while the handler
\* runs; only the first branch reads them.
github_status_tool(name, arguments, resp, now) ==
    \/ /\ name = "check_github_status"
       /\ check_github_status(arguments, resp, now)
    \/ /\ name = "start_monitoring"
       /\ start_monitoring(arguments)
    \/ /\ name = "stop_monitoring"
       /\ stop_monitoring(arguments)
    \/ /\ name \notin KnownTools
       /\ unknown_tool(name, arguments)

CallTool(name, arguments, resp, now) ==
    \/ /\ ~ValidateInput(name, arguments)
       /\ RejectCall(name, arguments)
    \/ /\ ValidateInput(name, arguments)
       /\ github_status_tool(name, arguments, resp, now)

-----------------------------------------------------------------------------
(* The system *)

Init ==
    /\ monitoring = FALSE
    /\ check_interval = InitialInterval
    /\ last_status = None
    /\ tasks = [i \in Slots |-> NoTask]
    /\ stdout = <<>>
    /\ result = [id |-> 0, tool |-> "", arguments |-> EmptyDict,
                 raised |-> FALSE, text |-> <<>>]
    /\ fetch = [by |-> -1, resp |-> NoResponse]

Next ==
    \/ \E name \in ToolNames : \E arguments \in ArgumentsOf(name) :
           \E resp \in Responses, now \in Clock :
               CallTool(name, arguments, resp, now)
    \/ \E i \in Slots : LoopCheck(i)
    \/ \E i \in Slots, resp \in Responses, now \in Clock : LoopPoll(i, resp, now)

Spec == Init /\ [][Next]_vars

\* The same system with the endpoint's answers drawn from one body and one
\* failure, for the properties of the loops' progress, which do not read
\* the answer.
FairResponses ==
    {r \in Responses : \/ r.kind = "ok" /\ r.body = PayloadMajor
                       \/ r.kind = "transport"}

FairNext ==
    \/ \E name \in ToolNames : \E arguments \in ArgumentsOf(name) :
           \E resp \in FairResponses, now \in Clock :
               CallTool(name, arguments, resp, now)
    \/ \E i \in Slots : LoopCheck(i)
    \/ \E i \in Slots, resp \in FairResponses, now \in Clock :
           LoopPoll(i, resp, now)

\* The event loop runs every task that is ready: a task made by create_task
\* starts, a sleep ends, a GET ends (httpx times out by default).
FairSpec ==
    /\ Init
    /\ [][FairNext]_vars
    /\ \A i \in Slots : WF_vars(LoopCheck(i))
    /\ \A i \in Slots :
           WF_vars(\E resp \in FairResponses, now \in Clock : LoopPoll(i, resp, now))

\* On-demand checks alone, with the endpoint answering every well-formed
\* body: the specification the normalisation is checked under.
NormNext ==
    \E body \in Payloads, now \in Clock :
        check_github_status(EmptyDict, [kind |-> "ok", body |-> body, error |-> ""], now)

NormSpec == Init /\ [][NormNext]_vars

-----------------------------------------------------------------------------
(* Properties *)

\* A step that answers a call of the tool handler.
IsCall == result'.id # result.id

\* Task i begins a poll: it passes the while test and calls
\* get_current_status.
BeginsPoll(i) == tasks[i].pc # "fetching" /\ tasks'[i].pc = "fetching"

\* Task i ends a poll: the endpoint has answered it.
EndsPoll(i) == tasks[i].pc = "fetching" /\ tasks'[i].pc # "fetching"

\* C1: at most one polling loop (monitor_github_status task) is alive,
\* whatever sequence of start_monitoring calls was made.
C1_AtMostOneLoop == Cardinality(Alive) <= 1

\* C2: a loop that was sleeping or awaiting its fetch when a Stop took
\* effect begins no poll after that Stop, also when a Start follows the Stop
\* at once; only loops spawned later poll.
C2_NoPollByStaleLoop ==
    [][\A i \in Slots : tasks[i].stale => ~BeginsPoll(i)]_vars

\* C3: a start_monitoring call with an interval below 10 is rejected with a
\* validation error and Start does not run: the running flag, the interval
\* and the set of polling loops are unchanged.
C3_LowIntervalRejected ==
    [][(/\ IsCall
        /\ result'.tool = "start_monitoring"
        /\ "interval" \in DOMAIN result'.arguments
        /\ result'.arguments.interval < 10)
       => /\ result'.raised
          /\ result'.text[1] = "Input validation error: "
          /\ UNCHANGED <<monitoring, check_interval, tasks>>]_vars

C3_Witness ==
    /\ result.tool = "start_monitoring"
    /\ result.arguments = [interval |-> 5]
    /\ result.raised
    /\ monitoring
    /\ check_interval = 10
    /\ Cardinality(Alive) = 1

\* C4: get_current_status (CheckNow) returns a five-field summary for every
\* outcome of the fetch and never raises; when the fetch failed (HTTP status
\* or transport) the summary has status "error", a description made of
\* "Failed to fetch status: " and the cause, and both counts 0.
C4_CheckNowTotal ==
    (result.tool = "check_github_status" /\ fetch.by = 0)
    => /\ ~result.raised
       /\ Len(result.text) = 2
       /\ DOMAIN result.text[2] =
              {"status", "description", "updated_at", "incidents", "maintenances"}
       /\ fetch.resp.kind \in {"http", "transport"}
          => /\ result.text[2].status = "error"
             /\ result.text[2].description
                    = "Failed to fetch status: " \o fetch.resp.error
             /\ result.text[2].incidents = 0
             /\ result.text[2].maintenances = 0

C4_Witness ==
    /\ result.tool = "check_github_status"
    /\ fetch.by = 0
    /\ fetch.resp.kind = "transport"
    /\ ~result.raised
    /\ result.text[2].status = "error"

\* C5: once an on-demand check or a loop tick has completed, last_status is
\* set; a successful on-demand check sets it to the summary it returns.
C5_LastStatusSetAfterCheck ==
    /\ fetch.by >= 0 => last_status # None
    /\ (result.tool = "check_github_status" /\ fetch.by = 0 /\ ~result.raised)
       => last_status = result.text[2]

\* C6: a loop tick whose fetch failed is followed by a sleep of the fixed
\* retry delay, 60 s, not of the configured interval.
C6_BackoffOnFailure ==
    \A i \in Slots :
        (/\ tasks[i].pc = "sleeping"
         /\ fetch.by = i
         /\ fetch.resp.kind \in {"http", "transport"})
        => tasks[i].sleep = 60

\* C7: after a loop-driven poll, a StatusDegraded alert (status and
\* description) was emitted iff the status is neither "none" nor "minor",
\* an ActiveIncidents alert with the incident count was emitted iff the
\* count is positive, whatever the status, and nothing else was emitted.
C7_AlertEvaluation ==
    fetch.by >= 1
    => LET degraded == <<"GitHub Status Alert: ", last_status.status, " - ",
                         last_status.description>>
           incidents == <<"GitHub Incidents Alert: ", last_status.incidents,
                          " active incidents">>
       IN  /\ last_status # None
           /\ (\E k \in DOMAIN stdout : Len(stdout[k]) = 4 /\ stdout[k] = degraded)
              <=> last_status.status \notin {"none", "minor"}
           /\ (\E k \in DOMAIN stdout : Len(stdout[k]) = 3 /\ stdout[k] = incidents)
              <=> last_status.incidents > 0
           /\ \A k \in DOMAIN stdout :
                  \/ Len(stdout[k]) = 4 /\ stdout[k] = degraded
                  \/ Len(stdout[k]) = 3 /\ stdout[k] = incidents

C7_Witness ==
    /\ fetch.by >= 1
    /\ last_status # None
    /\ last_status.status = "minor"
    /\ last_status.incidents = 1
    /\ stdout = << <<"GitHub Incidents Alert: ", 1, " active incidents">> >>

\* C8: Stop is cooperative and effective.  A poll in flight is not
\* interrupted: a fetching loop leaves the fetch only by finishing the poll.
\* No poll begins while monitoring is false.  And from every state with
\* monitoring false, unless a Start sets it again, every loop exits: the
\* engine reaches Idle.
C8_StopEffective ==
    /\ [][\A i \in Slots :
             /\ EndsPoll(i) => (tasks'[i].pc = "sleeping" /\ fetch'.by = i)
             /\ BeginsPoll(i) => monitoring]_vars
    /\ (~monitoring) ~> (monitoring \/ Alive = {})

C8_Witness ==
    /\ ~monitoring
    /\ Alive = {}
    /\ result.tool = "stop_monitoring"
    /\ fetch.by >= 1

\* C9: a failed fetch in a loop tick does not stop monitoring: the error
\* summary becomes last_status, the flag is not touched and the loop goes
\* to sleep; a loop returns only when monitoring is false, so while no Stop
\* is issued a loop that wakes up polls again.
C9_FailureKeepsMonitoring ==
    [][\A i \in Slots :
             /\ (EndsPoll(i) /\ fetch'.resp.kind \in {"http", "transport"})
                => /\ last_status' # None
                   /\ last_status'.status = "error"
                   /\ last_status'.description
                          = "Failed to fetch status: " \o fetch'.resp.error
                   /\ monitoring' = monitoring
                   /\ tasks'[i].pc = "sleeping"
             /\ (tasks[i].pc # "none" /\ tasks'[i].pc = "none") => ~monitoring
             /\ (tasks[i].pc = "sleeping" /\ tasks'[i].pc # "sleeping" /\ monitoring)
                => tasks'[i].pc = "fetching"]_vars

C9_Witness ==
    \E i \in Slots :
        /\ fetch.by = i
        /\ fetch.resp.kind = "http"
        /\ tasks[i].pc = "sleeping"
        /\ monitoring
        /\ last_status # None
        /\ last_status.status = "error"

\* C10: a call naming a tool other than check_github_status,
\* start_monitoring and stop_monitoring raises an error that names the tool
\* and changes neither the flag, the interval, last_status nor the loops.
C10_UnknownToolRejected ==
    [][(/\ IsCall
        /\ result'.tool \notin
               {"check_github_status", "start_monitoring", "stop_monitoring"})
       => /\ result'.raised
          /\ result'.text = <<"Unknown tool: ", result'.tool>>
          /\ UNCHANGED <<monitoring, check_interval, last_status, tasks>>]_vars

C10_Witness ==
    /\ result.tool = "restart_monitoring"
    /\ result.raised
    /\ monitoring
    /\ Cardinality(Alive) = 2

\* C11: only loop-driven polls emit alerts: an on-demand
\* check_github_status call prints nothing, whatever summary it returns.
C11_CheckEmitsNoAlert ==
    [][(IsCall /\ result'.tool = "check_github_status") => stdout' = stdout]_vars

C11_Witness ==
    /\ result.tool = "check_github_status"
    /\ fetch.by = 0
    /\ ~result.raised
    /\ result.text[2].status = "major"
    /\ result.text[2].incidents = 2
    /\ last_status # None
    /\ last_status.status = "none"
    /\ stdout = <<>>

\* The fields of summary s come from body: each is the body's value where
\* the body has the field and the documented default where it has not; the
\* counts are the lengths of the lists.
FromPayload(s, body) ==
    /\ DOMAIN s = {"status", "description", "updated_at", "incidents", "maintenances"}
    /\ s.status = IF "status" \in DOMAIN body /\ "indicator" \in DOMAIN body["status"]
                  THEN body["status"]["indicator"] ELSE "unknown"
    /\ s.description =
           IF "status" \in DOMAIN body /\ "description" \in DOMAIN body["status"]
           THEN body["status"]["description"] ELSE "No description"
    /\ s.updated_at = IF "page" \in DOMAIN body /\ "updated_at" \in DOMAIN body["page"]
                      THEN body["page"]["updated_at"] ELSE "unknown"
    /\ s.incidents = IF "incidents" \in DOMAIN body
                     THEN Cardinality(DOMAIN body["incidents"]) ELSE 0
    /\ s.maintenances = IF "scheduled_maintenances" \in DOMAIN body
                        THEN Cardinality(DOMAIN body["scheduled_maintenances"]) ELSE 0

\* C12: for every well-formed body, with any of the optional fields missing,
\* the normalisation does not raise and gives status "unknown", description
\* "No description", updated_at "unknown" and counts 0 for what is missing,
\* the body's values and the lists' lengths for what is there.
C12_NormalizeDefaults ==
    (result.tool = "check_github_status" /\ fetch.resp.kind = "ok")
    => /\ ~result.raised
       /\ Len(result.text) = 2
       /\ FromPayload(result.text[2], fetch.resp.body)

C12_Witness ==
    /\ result.tool = "check_github_status"
    /\ fetch.resp.kind = "ok"
    /\ DOMAIN fetch.resp.body = {"status", "incidents"}
    /\ DOMAIN fetch.resp.body["status"] = {"indicator"}
    /\ result.text[2] = [status |-> "critical", description |-> "No description",
                         updated_at |-> "unknown", incidents |-> 2,
                         maintenances |-> 0]

\* C13: the loop reads the flag after a poll and before it sleeps again: a
\* loop whose poll ends after a Stop took effect (monitoring is false)
\* returns at once, without another sleep.
C13_ExitBeforeSleep ==
    [][\A i \in Slots :
          (EndsPoll(i) /\ tasks[i].stale /\ ~monitoring) => tasks'[i].pc = "none"]_vars

\* C14: the latest interval asked for is the one in effect: check_interval
\* changes only by a start_monitoring call that is not rejected, which sets
\* it to the interval of the call (300 without one), also while monitoring
\* is running; and every sleep a loop begins lasts check_interval as it is
\* then.
C14_LatestIntervalInEffect ==
    [][/\ (IsCall /\ result'.tool = "start_monitoring" /\ ~result'.raised)
          => check_interval' = IF "interval" \in DOMAIN result'.arguments
                               THEN result'.arguments.interval ELSE 300
       /\ check_interval' # check_interval
          => (IsCall /\ result'.tool = "start_monitoring" /\ ~result'.raised)
       /\ \A i \in Slots :
              (tasks[i].pc # "sleeping" /\ tasks'[i].pc = "sleeping")
              => (tasks'[i].sleep = check_interval /\ check_interval' = check_interval)
      ]_vars

C14_Witness ==
    /\ result.tool = "start_monitoring"
    /\ result.arguments = [interval |-> 10]
    /\ check_interval = 10
    /\ \E i, j \in Slots :
          /\ tasks[i].pc = "sleeping" /\ tasks[i].sleep = 300
          /\ tasks[j].pc = "sleeping" /\ tasks[j].sleep = 10

\* C15 as stated: every reachable state is Idle (monitoring false, no loop
\* alive) or Polling (monitoring true, a loop alive).
C15_IdleOrPolling ==
    \/ ~monitoring /\ Alive = {}
    \/ monitoring /\ Alive # {}

\* C15, amended: every reachable state is Idle, Polling, or stopping:
\* monitoring false with loops alive that have not read the flag since.
\* No reachable state has monitoring true and no loop alive.
C15_IdlePollingOrStopping ==
    \/ ~monitoring /\ Alive = {}
    \/ monitoring /\ Alive # {}
    \/ ~monitoring /\ Alive # {}

C15_Witness ==
    /\ ~monitoring
    /\ result.tool = "stop_monitoring"
    /\ \E i \in Slots : tasks[i].pc = "sleeping"

\* C16: monitoring and check_interval change only in a step of
\* start_monitoring or stop_monitoring, never in a step of a loop, of an
\* on-demand check or of a rejected call; last_status changes only in a
\* step that ends a loop's poll or in an on-demand check.
C16_Frame ==
    [][/\ (monitoring' # monitoring \/ check_interval' # check_interval)
          => /\ IsCall
             /\ result'.tool \in {"start_monitoring", "stop_monitoring"}
             /\ ~result'.raised
       /\ last_status' # last_status
          => \/ \E i \in Slots : EndsPoll(i)
             \/ IsCall /\ result'.tool = "check_github_status"
      ]_vars

C16_Witness ==
    /\ ~monitoring
    /\ check_interval = 10
    /\ last_status # None
    /\ result.tool = "stop_monitoring"
    /\ Alive = {}

\* Summary s is what the answer resp of the endpoint calls for: status
\* "error" iff the fetch failed, then with counts 0 and a description made
\* of "Failed to fetch status: " and the cause; otherwise every field from
\* the body or its default.
Provenance(s, resp) ==
    /\ s.status = "error" <=> resp.kind \in {"http", "transport"}
    /\ resp.kind \in {"http", "transport"}
       => /\ s.incidents = 0
          /\ s.maintenances = 0
          /\ s.description = "Failed to fetch status: " \o resp.error
    /\ resp.kind = "ok" => FromPayload(s, resp.body)

C18_NeverSilentlyDead ==
    /\ [](monitoring => Alive # {})
    /\ [][\A i \in Slots :
             /\ (tasks[i].pc # "none" /\ tasks'[i].pc = "none")
                => (~monitoring /\ tasks[i].pc \in {"created", "sleeping"})
             /\ EndsPoll(i) => tasks'[i].pc = "sleeping"]_vars

C18_Witness ==
    /\ monitoring
    /\ result.tool = "start_monitoring"
    /\ Cardinality(Alive) = 1
    /\ fetch.by >= 1
    /\ fetch.resp.kind = "http"
    /\ \E i \in Slots : tasks[i].pc = "fetching"

\* C19: a loop tick whose fetch failed prints the status alert with status
\* "error" and the failure description, and no incidents alert.
C19_FailedTickAlerts ==
    (fetch.by >= 1 /\ fetch.resp.kind \in {"http", "transport"})
    => stdout = << <<"GitHub Status Alert: ", "error", " - ",
                     "Failed to fetch status: " \o fetch.resp.error>> >>

C19_Witness ==
    /\ fetch.by >= 1
    /\ fetch.resp.kind = "transport"
    /\ Len(stdout) = 1
    /\ stdout[1][2] = "error"
    /\ stdout[1][4] = "Failed to fetch status: timed out"

\* C20: last_status starts as None; every value written to it is a
\* five-field summary that get_current_status returned for the answer just
\* fetched; once it is not None it is never None again, whatever Start,
\* Stop, check and tick follow.
C20_LastStatusMonotone ==
    /\ last_status = None
    /\ [][/\ last_status # None => last_status' # None
          /\ last_status' # last_status
             => /\ DOMAIN last_status' = {"status", "description", "updated_at",
                                          "incidents", "maintenances"}
                /\ \E now \in Clock :
                       last_status' = get_current_status(fetch'.resp, now).value
         ]_vars

C20_Witness ==
    /\ last_status # None
    /\ monitoring
    /\ result.tool = "start_monitoring"
    /\ \E i \in Slots : tasks[i].stale
    /\ \E i \in Slots : tasks[i].pc = "created"

====
